---- MODULE Spec2Model ----
(***************************************************************************)
(* Model of the I2C_LCD driver (HD44780 behind a PCF8574 I/O expander).    *)
(*                                                                         *)
(* The driver state is the set of file-scope variables of I2C_LCD.h.  The  *)
(* I2C master (I2C.h) is the environment: every call the driver makes to   *)
(* it is appended, as an event, to the bus capture `bus`.  Every public    *)
(* driver function is one action; it is atomic because the driver is       *)
(* single threaded and blocking.  `device` is the display's side of the    *)
(* bus: whether it answers its address, and which byte writes it leaves    *)
(* unacknowledged.                                                         *)
(***************************************************************************)
EXTENDS Integers, Sequences, FiniteSets, TLC

VARIABLES
    backlight,        \* uint8_t backlight
    numlines,         \* uint8_t numlines
    numcols,          \* uint8_t numcols
    displayfunction,  \* uint8_t displayfunction
    displaycontrol,   \* uint8_t displaycontrol
    displaymode,      \* uint8_t displaymode
    row_offsets,      \* uint8_t row_offsets[4], as a sequence indexed 1..4
    calls,            \* the calls the capture covers, oldest first
    bus,              \* the bus events of those calls, in order
    depth,            \* number of calls the capture holds before it restarts
    blocked,          \* TRUE once the driver is inside a call that never returns
    pending,          \* what the call waiting in I2C_startWait has yet to issue
    device            \* the display as the bus sees it: [ready, refuses]

driver == <<backlight, numlines, numcols, displayfunction, displaycontrol,
            displaymode, row_offsets>>
vars == <<backlight, numlines, numcols, displayfunction, displaycontrol,
          displaymode, row_offsets, calls, bus, depth, blocked, pending,
          device>>

---------------------------------------------------------------------------
(* Program constants (I2C_LCD.h, I2C.h).                                   *)

I2C_WRITE == 0
I2C_LCD_ADDRESS == 78
I2C_LCD_RS == 1
I2C_LCD_RW == 2
I2C_LCD_E == 4
I2C_LCD_BL == 8
I2C_LCD_CLEARDISPLAY == 1
I2C_LCD_ENTRYMODESET == 4
I2C_LCD_DISPLAYCONTROL == 8
I2C_LCD_CURSORSHIFT == 16
I2C_LCD_FUNCTIONSET == 32
I2C_LCD_SETCGRAMADDR == 64
I2C_LCD_SETDDRAMADDR == 128
I2C_LCD_ENTRYLEFT == 2
I2C_LCD_ENTRYSHIFTINCREMENT == 1
I2C_LCD_ENTRYSHIFTDECREMENT == 0
I2C_LCD_DISPLAY == 4
I2C_LCD_CURSOR == 2
I2C_LCD_BLINK == 1
I2C_LCD_DISPLAYMOVE == 8
I2C_LCD_MOVERIGHT == 4
I2C_LCD_MOVELEFT == 0
I2C_LCD_8BITMODE == 16
I2C_LCD_4BITMODE == 0
I2C_LCD_2LINE == 8
I2C_LCD_ON == 255

---------------------------------------------------------------------------
(* Bounds and input sets.                                                  *)

MaxStrLen == 2      \* longest string handed to print
MaxCoord == 5       \* setCursor coordinates 0..MaxCoord, plus the far ones
MaxLocation == 17   \* createChar locations 0..MaxLocation, plus the far ones

Byte == 0..255
Chars == {33, 72, 105}                     \* '!', 'H', 'i'
StateArgs == {0, 1, 255}                   \* OFF, "true", ON
\* the byte found by a read outside row_offsets: any byte can lie there
Garbage == {0, 1, 64, 127, 255}

RECURSIVE SeqsUpTo(_, _)
SeqsUpTo(S, n) ==
    IF n = 0 THEN { <<>> }
    ELSE LET shorter == SeqsUpTo(S, n - 1)
         IN  shorter \cup { Append(s, c) : s \in shorter, c \in S }

---------------------------------------------------------------------------
(* C integer arithmetic.  avr-gcc: int is 16 bits, two's complement; an    *)
(* int is held here as its value modulo 2^16, a uint8_t modulo 2^8.        *)

Int16(x) == x % 65536
U8(x) == x % 256

(* a & b and a | b on ints, bit by bit from the low end *)
RECURSIVE AndBits(_, _)
AndBits(a, b) ==
    IF a = 0 \/ b = 0 THEN 0
    ELSE (a % 2) * (b % 2) + 2 * AndBits(a \div 2, b \div 2)

RECURSIVE OrBits(_, _)
OrBits(a, b) ==
    IF a = 0 THEN b
    ELSE IF b = 0 THEN a
    ELSE (IF (a % 2) + (b % 2) > 0 THEN 1 ELSE 0)
         + 2 * OrBits(a \div 2, b \div 2)

AND(a, b) == AndBits(Int16(a), Int16(b))
OR(a, b) == OrBits(Int16(a), Int16(b))

NOT(a) == 65535 - Int16(a)

---------------------------------------------------------------------------
(* Bus Transport (I2C.h): each call is one event of the capture.           *)

I2C_startWait(addr) == << [ev |-> "startWait", b |-> U8(addr)] >>
I2C_write(data) == << [ev |-> "write", b |-> U8(data)] >>
(* What I2C_write returns for the k-th byte write of a push: 0 success.    *)
I2C_writeStatus(k) == IF k \in device.refuses THEN 1 ELSE 0
I2C_stop == << [ev |-> "stop", b |-> 0] >>

---------------------------------------------------------------------------
(* Low-level encoding.  bl is the value of `backlight` when push runs.     *)

(* Faulty variant: the backlight byte masked instead of tested. *)
PushMaskedBacklight(i2c_data, bl) ==
    LET d == U8(i2c_data)
        light == AND(bl, I2C_LCD_BL)
    IN  I2C_write(OR(OR(AND(d, NOT(I2C_LCD_BL)), I2C_LCD_E), light))
        \o I2C_write(OR(AND(AND(d, NOT(I2C_LCD_BL)), NOT(I2C_LCD_E)), light))

(* Faulty variant: push gives up when its first write is not acknowledged. *)
PushStopsOnNack(i2c_data, bl) ==
    LET d == U8(i2c_data)
        light == IF bl # 0 THEN I2C_LCD_BL ELSE 0
        high == I2C_write(OR(OR(AND(d, NOT(I2C_LCD_BL)), I2C_LCD_E), light))
        low == I2C_write(OR(AND(AND(d, NOT(I2C_LCD_BL)), NOT(I2C_LCD_E)), light))
    IN  IF I2C_writeStatus(1) # 0 THEN high ELSE high \o low

(* Faulty variant: E is not taken out of the second byte. *)
PushKeepsEnable(i2c_data, bl) ==
    LET d == U8(i2c_data)
        light == IF bl # 0 THEN I2C_LCD_BL ELSE 0
    IN  I2C_write(OR(OR(AND(d, NOT(I2C_LCD_BL)), I2C_LCD_E), light))
        \o I2C_write(OR(AND(d, NOT(I2C_LCD_BL)), light))

(* The values I2C_write returns are dropped: push reads no status.         *)
I2C_LCD_push(i2c_data, bl) ==
    LET d == U8(i2c_data)
        light == IF bl # 0 THEN I2C_LCD_BL ELSE 0
    IN  I2C_write(OR(OR(AND(d, NOT(I2C_LCD_BL)), I2C_LCD_E), light))
        \o I2C_write(OR(AND(AND(d, NOT(I2C_LCD_BL)), NOT(I2C_LCD_E)), light))

(* Faulty variant: the low nibble is sent where it stands. *)
Command4bitLowUnshifted(command, bl) ==
    LET c == U8(command)
    IN  I2C_LCD_push(AND(c, 240), bl) \o I2C_LCD_push(AND(c, 15), bl)

I2C_LCD_command4bit(command, bl) ==
    LET c == U8(command)
    IN  I2C_LCD_push(AND(c, 240), bl) \o I2C_LCD_push(Int16(c * 16), bl)

(* Faulty variant: the handshake command sent as two nibbles. *)
Command8bitBothNibbles(command, bl) ==
    LET c == U8(command)
    IN  I2C_LCD_push(AND(c, 240), bl) \o I2C_LCD_push(Int16(c * 16), bl)

I2C_LCD_command8bit(command, bl) ==
    LET c == U8(command)
    IN  I2C_LCD_push(AND(c, 240), bl)

(* Faulty variant: RS is missing from the second nibble. *)
WriteLowNibbleAsCommand(ch, bl) ==
    LET c == U8(ch)
    IN  I2C_LCD_push(OR(AND(c, 240), I2C_LCD_RS), bl)
        \o I2C_LCD_push(Int16(c * 16), bl)

I2C_LCD_write(ch, bl) ==
    LET c == U8(ch)
    IN  I2C_LCD_push(OR(AND(c, 240), I2C_LCD_RS), bl)
        \o I2C_LCD_push(OR(Int16(c * 16), I2C_LCD_RS), bl)

LcdAddress == AND(I2C_LCD_ADDRESS, NOT(I2C_WRITE))

---------------------------------------------------------------------------
(* The capture.  A call appends its record and its events; a full capture  *)
(* restarts with the call that does not fit.                               *)

(* What a call issues up to and with its I2C_startWait. *)
UpToConnect(events) ==
    LET starts == { i \in 1..Len(events) : events[i].ev = "startWait" }
        first == IF starts = {} THEN Len(events)
                 ELSE CHOOSE i \in starts : \A j \in starts : i <= j
    IN  SubSeq(events, 1, first)

(* I2C_startWait returns once the device has answered its address.  With   *)
(* a device that answers at once the call runs to its end; otherwise it    *)
(* runs up to its I2C_startWait and the rest stays pending.                *)
Capture(op, args, events) ==
    LET c == [op |-> op, args |-> args]
        now == IF device.ready THEN events ELSE UpToConnect(events)
    IN  /\ pending' = SubSeq(events, Len(now) + 1, Len(events))
        /\ IF Len(calls) < depth
           THEN /\ calls' = Append(calls, c)
                /\ bus' = bus \o now
           ELSE /\ calls' = << c >>
                /\ bus' = now
        /\ UNCHANGED device

(* A call that returns; the application makes no call while one is still   *)
(* running.                                                                *)
Record(op, args, events) ==
    /\ ~blocked
    /\ pending = << >>
    /\ blocked' = FALSE
    /\ Capture(op, args, events)

(* A call that never returns: events holds what it writes before it starts *)
(* to repeat itself.                                                       *)
RecordNoReturn(op, args, events) ==
    /\ ~blocked
    /\ pending = << >>
    /\ blocked' = TRUE
    /\ Capture(op, args, events)

(* The device answers the address the waiting call keeps sending:          *)
(* I2C_startWait returns and the call runs to its end.                     *)
I2C_startWaitReturns ==
    /\ pending # << >>
    /\ device.ready
    /\ bus' = bus \o pending
    /\ pending' = << >>
    /\ UNCHANGED <<driver, calls, depth, blocked, device>>

(* The device starts or stops answering its address. *)
DeviceAnswers(ready) ==
    /\ device.ready # ready
    /\ device' = [device EXCEPT !.ready = ready]
    /\ UNCHANGED <<driver, calls, bus, depth, blocked, pending>>

(* The device changes which of the two byte writes of a push it leaves     *)
(* unacknowledged: 1 the write with E high, 2 the write with E low.        *)
DeviceRefuses(writes) ==
    /\ device.refuses # writes
    /\ device' = [device EXCEPT !.refuses = writes]
    /\ UNCHANGED <<driver, calls, bus, depth, blocked, pending>>

(* A display that answers and acknowledges every byte. *)
Attentive == [ready |-> TRUE, refuses |-> {}]

TypeOK ==
    /\ backlight \in 0..255
    /\ numlines \in 0..255
    /\ numcols \in 0..255
    /\ displayfunction \in 0..255
    /\ displaycontrol \in 0..255
    /\ displaymode \in 0..255
    /\ row_offsets \in [1..4 -> 0..255]
    /\ depth \in Nat
    /\ blocked \in BOOLEAN
    /\ device \in [ready : BOOLEAN, refuses : SUBSET {1, 2}]
    /\ \A i \in 1..Len(pending) : pending[i].ev \in {"write", "stop"}
    /\ Len(calls) <= depth
    /\ \A i \in 1..Len(bus) :
          /\ bus[i].ev \in {"startWait", "write", "stop"}
          /\ bus[i].b \in 0..255

(* Globals of a C program start zeroed. *)
Init ==
    /\ backlight = 0
    /\ numlines = 0
    /\ numcols = 0
    /\ displayfunction = 0
    /\ displaycontrol = 0
    /\ displaymode = 0
    /\ row_offsets = <<0, 0, 0, 0>>
    /\ calls = << >>
    /\ bus = << >>
    /\ depth = 1
    /\ blocked = FALSE
    /\ pending = << >>
    /\ device = Attentive

---------------------------------------------------------------------------
(* Driver operations (I2C_LCD.c).                                          *)

I2C_LCD_setRowOffsets(row1, row2, row3, row4) ==
    << U8(row1), U8(row2), U8(row3), U8(row4) >>

(* Faulty variant: the display bit is added to the control register       *)
(* instead of replacing it.                                                *)
InitKeepsControl(cols, lines) ==
    LET function == IF lines > 1 THEN OR(displayfunction, I2C_LCD_2LINE)
                    ELSE displayfunction
        control == OR(displaycontrol, I2C_LCD_DISPLAY)
        mode == OR(I2C_LCD_ENTRYLEFT, I2C_LCD_ENTRYSHIFTDECREMENT)
        bl == I2C_LCD_ON
    IN  /\ backlight' = bl
        /\ displayfunction' = function
        /\ numlines' = lines
        /\ numcols' = cols
        /\ row_offsets' = I2C_LCD_setRowOffsets(0, 64, 0 + cols, 64 + cols)
        /\ displaycontrol' = control
        /\ displaymode' = mode
        /\ Record("init", <<cols, lines>>,
              I2C_startWait(LcdAddress)
              \o I2C_LCD_command8bit(OR(I2C_LCD_FUNCTIONSET, I2C_LCD_8BITMODE), bl)
              \o I2C_LCD_command8bit(OR(I2C_LCD_FUNCTIONSET, I2C_LCD_8BITMODE), bl)
              \o I2C_LCD_command8bit(OR(I2C_LCD_FUNCTIONSET, I2C_LCD_8BITMODE), bl)
              \o I2C_LCD_command8bit(OR(I2C_LCD_FUNCTIONSET, I2C_LCD_4BITMODE), bl)
              \o I2C_LCD_command4bit(OR(I2C_LCD_FUNCTIONSET, function), bl)
              \o I2C_LCD_command4bit(OR(I2C_LCD_DISPLAYCONTROL, control), bl)
              \o I2C_LCD_command4bit(I2C_LCD_CLEARDISPLAY, bl)
              \o I2C_LCD_command4bit(OR(I2C_LCD_ENTRYMODESET, mode), bl)
              \o I2C_stop)
        /\ UNCHANGED depth

I2C_LCD_init(cols, lines) ==
    LET function == IF lines > 1 THEN OR(displayfunction, I2C_LCD_2LINE)
                    ELSE displayfunction
        control == I2C_LCD_DISPLAY
        mode == OR(I2C_LCD_ENTRYLEFT, I2C_LCD_ENTRYSHIFTDECREMENT)
        bl == I2C_LCD_ON
    IN  /\ backlight' = bl
        /\ displayfunction' = function
        /\ numlines' = lines
        /\ numcols' = cols
        /\ row_offsets' = I2C_LCD_setRowOffsets(0, 64, 0 + cols, 64 + cols)
        /\ displaycontrol' = control
        /\ displaymode' = mode
        /\ Record("init", <<cols, lines>>,
              I2C_startWait(LcdAddress)
              \o I2C_LCD_command8bit(OR(I2C_LCD_FUNCTIONSET, I2C_LCD_8BITMODE), bl)
              \o I2C_LCD_command8bit(OR(I2C_LCD_FUNCTIONSET, I2C_LCD_8BITMODE), bl)
              \o I2C_LCD_command8bit(OR(I2C_LCD_FUNCTIONSET, I2C_LCD_8BITMODE), bl)
              \o I2C_LCD_command8bit(OR(I2C_LCD_FUNCTIONSET, I2C_LCD_4BITMODE), bl)
              \o I2C_LCD_command4bit(OR(I2C_LCD_FUNCTIONSET, function), bl)
              \o I2C_LCD_command4bit(OR(I2C_LCD_DISPLAYCONTROL, control), bl)
              \o I2C_LCD_command4bit(I2C_LCD_CLEARDISPLAY, bl)
              \o I2C_LCD_command4bit(OR(I2C_LCD_ENTRYMODESET, mode), bl)
              \o I2C_stop)
        /\ UNCHANGED depth

(* The loop of print: c is the array with its terminator, i the uint8_t    *)
(* index.  The loop ends at the first i in 0..255 with c[i] = 0, having    *)
(* written c[0..i-1].  With no such i, ++i brings the index from 255 back  *)
(* to 0 and, the index being all the loop changes, the first pass over     *)
(* c[0..255] is repeated for ever: returns is FALSE and events holds that  *)
(* first pass.                                                             *)
PrintLoop(c, bl) ==
    LET ends == { i \in 0..255 : i + 1 <= Len(c) /\ c[i + 1] = 0 }
        n == IF ends = {} THEN 256
             ELSE CHOOSE i \in ends : \A j \in ends : i <= j
        w == [k \in 1..n |-> I2C_LCD_write(c[k], bl)]
    IN  [events |-> [j \in 1..(4 * n) |-> w[((j - 1) \div 4) + 1][((j - 1) % 4) + 1]],
         returns |-> ends # {}]

(* Faulty variant: one transaction for each character. *)
RECURSIVE EachCharAlone(_, _, _, _)
EachCharAlone(c, i, bl, acc) ==
    IF c[i + 1] = 0 THEN acc
    ELSE EachCharAlone(c, U8(i + 1), bl,
            acc \o I2C_startWait(LcdAddress) \o I2C_LCD_write(c[i + 1], bl)
                \o I2C_stop)

PrintEachCharAlone(s) ==
    /\ Record("print", s, EachCharAlone(Append(s, 0), 0, backlight, << >>))
    /\ UNCHANGED <<driver, depth>>

I2C_LCD_print(s) ==
    LET run == PrintLoop(Append(s, 0), backlight)
    IN  /\ IF run.returns
           THEN Record("print", s,
                   I2C_startWait(LcdAddress) \o run.events \o I2C_stop)
           ELSE RecordNoReturn("print", s,
                   I2C_startWait(LcdAddress) \o run.events)
        /\ UNCHANGED <<driver, depth>>

(* Faulty variant: the character is written before the connection is made. *)
PrintCharBeforeConnect(c) ==
    /\ Record("printChar", <<c>>,
          I2C_LCD_write(c, backlight) \o I2C_startWait(LcdAddress) \o I2C_stop)
    /\ UNCHANGED <<driver, depth>>

I2C_LCD_printChar(c) ==
    /\ Record("printChar", <<c>>,
          I2C_startWait(LcdAddress) \o I2C_LCD_write(c, backlight) \o I2C_stop)
    /\ UNCHANGED <<driver, depth>>

(* Faulty variant: a column past the end wraps around. *)
LimitColWraps(col) == IF col >= numcols /\ numcols > 0 THEN col % numcols ELSE col

(* Faulty variant: the column is used as given. *)
LimitColAbsent(col) == col

(* Lines 119 and 120: only the upper limit is applied. *)
LimitCol(col) == IF col >= numcols THEN numcols ELSE col
LimitRow(row) == IF row >= numlines THEN numlines ELSE row

(* row_offsets[row-1]: inside the array the stored offset, outside it      *)
(* whatever byte lies there.                                               *)
RowOffsetReads(row) ==
    LET idx == LimitRow(row) - 1
    IN  IF idx \in 0..3 THEN { row_offsets[idx + 1] } ELSE Garbage

(* Faulty variant: the column used as a zero-based address. *)
SetCursorNoColumnBase(col, row, offset, bl) ==
    I2C_LCD_command4bit(
        OR(I2C_LCD_SETDDRAMADDR, Int16(LimitCol(col) + offset)), bl)

I2C_LCD_setCursorWOI2C(col, row, offset, bl) ==
    I2C_LCD_command4bit(
        OR(I2C_LCD_SETDDRAMADDR, Int16((LimitCol(col) - 1) + offset)), bl)

SetCursorBus(col, row, offset) ==
    I2C_startWait(LcdAddress)
    \o I2C_LCD_setCursorWOI2C(col, row, offset, backlight)
    \o I2C_stop

I2C_LCD_setCursor(col, row) ==
    /\ \E offset \in RowOffsetReads(row) :
          Record("setCursor", <<col, row>>, SetCursorBus(col, row, offset))
    /\ UNCHANGED <<driver, depth>>

I2C_LCD_home ==
    /\ \E offset \in RowOffsetReads(1) :
          Record("home", << >>, SetCursorBus(1, 1, offset))
    /\ UNCHANGED <<driver, depth>>

(* The bracket shared by the one-command operations. *)
CommandBus(command, bl) ==
    I2C_startWait(LcdAddress) \o I2C_LCD_command4bit(command, bl) \o I2C_stop

(* Faulty variant: the bit is set on request but never cleared. *)
CursorNeverCleared(state) ==
    LET control == OR(displaycontrol, IF state # 0 THEN I2C_LCD_CURSOR ELSE 0)
    IN  /\ displaycontrol' = control
        /\ Record("cursor", <<state>>,
              CommandBus(OR(I2C_LCD_DISPLAYCONTROL, control), backlight))
        /\ UNCHANGED <<backlight, numlines, numcols, displayfunction,
                       displaymode, row_offsets, depth>>

I2C_LCD_cursor(state) ==
    LET control == OR(AND(displaycontrol, NOT(I2C_LCD_CURSOR)),
                      IF state # 0 THEN I2C_LCD_CURSOR ELSE 0)
    IN  /\ displaycontrol' = control
        /\ Record("cursor", <<state>>,
              CommandBus(OR(I2C_LCD_DISPLAYCONTROL, control), backlight))
        /\ UNCHANGED <<backlight, numlines, numcols, displayfunction,
                       displaymode, row_offsets, depth>>

(* Faulty variant: a request flips the bit. *)
BlinkFlips(state) ==
    LET bit == (displaycontrol \div I2C_LCD_BLINK) % 2
        control == IF state # 0
                   THEN displaycontrol - bit * I2C_LCD_BLINK
                        + (1 - bit) * I2C_LCD_BLINK
                   ELSE AND(displaycontrol, NOT(I2C_LCD_BLINK))
    IN  /\ displaycontrol' = control
        /\ Record("blink", <<state>>,
              CommandBus(OR(I2C_LCD_DISPLAYCONTROL, control), backlight))
        /\ UNCHANGED <<backlight, numlines, numcols, displayfunction,
                       displaymode, row_offsets, depth>>

I2C_LCD_blink(state) ==
    LET control == OR(AND(displaycontrol, NOT(I2C_LCD_BLINK)),
                      IF state # 0 THEN I2C_LCD_BLINK ELSE 0)
    IN  /\ displaycontrol' = control
        /\ Record("blink", <<state>>,
              CommandBus(OR(I2C_LCD_DISPLAYCONTROL, control), backlight))
        /\ UNCHANGED <<backlight, numlines, numcols, displayfunction,
                       displaymode, row_offsets, depth>>

I2C_LCD_display(state) ==
    LET control == OR(AND(displaycontrol, NOT(I2C_LCD_DISPLAY)),
                      IF state # 0 THEN I2C_LCD_DISPLAY ELSE 0)
    IN  /\ displaycontrol' = control
        /\ Record("display", <<state>>,
              CommandBus(OR(I2C_LCD_DISPLAYCONTROL, control), backlight))
        /\ UNCHANGED <<backlight, numlines, numcols, displayfunction,
                       displaymode, row_offsets, depth>>

I2C_LCD_backlight(state) ==
    /\ backlight' = state
    /\ Record("backlight", <<state>>,
          CommandBus(OR(I2C_LCD_DISPLAYCONTROL, displaycontrol), state))
    /\ UNCHANGED <<numlines, numcols, displayfunction, displaycontrol,
                   displaymode, row_offsets, depth>>

(* Faulty variant: clear also puts the entry mode back to its default. *)
ClearResetsEntryMode ==
    /\ displaymode' = I2C_LCD_ENTRYLEFT
    /\ Record("clear", << >>, CommandBus(I2C_LCD_CLEARDISPLAY, backlight))
    /\ UNCHANGED <<backlight, numlines, numcols, displayfunction,
                   displaycontrol, row_offsets, depth>>

I2C_LCD_clear ==
    /\ Record("clear", << >>, CommandBus(I2C_LCD_CLEARDISPLAY, backlight))
    /\ UNCHANGED <<driver, depth>>

I2C_LCD_scrollDisplayLeft ==
    /\ Record("scrollDisplayLeft", << >>,
          CommandBus(OR(OR(I2C_LCD_CURSORSHIFT, I2C_LCD_DISPLAYMOVE),
                        I2C_LCD_MOVELEFT), backlight))
    /\ UNCHANGED <<driver, depth>>

I2C_LCD_scrollDisplayRight ==
    /\ Record("scrollDisplayRight", << >>,
          CommandBus(OR(OR(I2C_LCD_CURSORSHIFT, I2C_LCD_DISPLAYMOVE),
                        I2C_LCD_MOVERIGHT), backlight))
    /\ UNCHANGED <<driver, depth>>

I2C_LCD_leftToRight ==
    LET mode == OR(displaymode, I2C_LCD_ENTRYLEFT)
    IN  /\ displaymode' = mode
        /\ Record("leftToRight", << >>,
              CommandBus(OR(I2C_LCD_ENTRYMODESET, mode), backlight))
        /\ UNCHANGED <<backlight, numlines, numcols, displayfunction,
                       displaycontrol, row_offsets, depth>>

I2C_LCD_rightToLeft ==
    LET mode == AND(displaymode, NOT(I2C_LCD_ENTRYLEFT))
    IN  /\ displaymode' = mode
        /\ Record("rightToLeft", << >>,
              CommandBus(OR(I2C_LCD_ENTRYMODESET, mode), backlight))
        /\ UNCHANGED <<backlight, numlines, numcols, displayfunction,
                       displaycontrol, row_offsets, depth>>

I2C_LCD_cursorFixPosition(state) ==
    LET mode == OR(AND(displaymode, NOT(I2C_LCD_ENTRYSHIFTINCREMENT)),
                   IF state # 0 THEN I2C_LCD_ENTRYSHIFTINCREMENT ELSE 0)
    IN  /\ displaymode' = mode
        /\ Record("cursorFixPosition", <<state>>,
              CommandBus(OR(I2C_LCD_ENTRYMODESET, mode), backlight))
        /\ UNCHANGED <<backlight, numlines, numcols, displayfunction,
                       displaycontrol, row_offsets, depth>>

RECURSIVE CharmapLoop(_, _, _, _)
CharmapLoop(charmap, i, bl, acc) ==
    IF i < 8
    THEN CharmapLoop(charmap, i + 1, bl,
                     acc \o I2C_LCD_write(AND(charmap[i + 1], 31), bl))
    ELSE acc

(* Faulty variant: the location is used as given. *)
CreateCharUnmasked(location, charmap) ==
    /\ Record("createChar", <<location>> \o charmap,
          I2C_startWait(LcdAddress)
          \o I2C_LCD_command4bit(OR(I2C_LCD_SETCGRAMADDR, Int16(location * 8)),
                                 backlight)
          \o CharmapLoop(charmap, 0, backlight, << >>)
          \o I2C_stop)
    /\ UNCHANGED <<driver, depth>>

I2C_LCD_createChar(location, charmap) ==
    LET loc == AND(location, 7)
    IN  /\ Record("createChar", <<location>> \o charmap,
              I2C_startWait(LcdAddress)
              \o I2C_LCD_command4bit(OR(I2C_LCD_SETCGRAMADDR, Int16(loc * 8)),
                                     backlight)
              \o CharmapLoop(charmap, 0, backlight, << >>)
              \o I2C_stop)
        /\ UNCHANGED <<driver, depth>>

---------------------------------------------------------------------------
(* The application: any bracketed operation, in any order, any number of   *)
(* times; a few arguments for each.                                        *)

Geometries == { <<16, 2>>, <<20, 1>> }
Texts == { << >>, <<72, 105>> }
Switch == {0, 1}
Places == { <<1, 1>>, <<1, 99>>, <<99, 2>> }
Glyph == <<14, 17, 17, 14, 4, 31, 4, 224>>

Next ==
    \/ \E g \in Geometries : I2C_LCD_init(g[1], g[2])
    \/ \E s \in Texts : I2C_LCD_print(s)
    \/ I2C_LCD_printChar(33)
    \/ \E p \in Places : I2C_LCD_setCursor(p[1], p[2])
    \/ I2C_LCD_home
    \/ \E state \in Switch : I2C_LCD_cursor(state)
    \/ \E state \in Switch : I2C_LCD_blink(state)
    \/ \E state \in Switch : I2C_LCD_display(state)
    \/ \E state \in Switch : I2C_LCD_backlight(state)
    \/ I2C_LCD_clear
    \/ I2C_LCD_scrollDisplayLeft
    \/ I2C_LCD_scrollDisplayRight
    \/ I2C_LCD_leftToRight
    \/ I2C_LCD_rightToLeft
    \/ \E state \in Switch : I2C_LCD_cursorFixPosition(state)
    \/ I2C_LCD_createChar(9, Glyph)

Spec == Init /\ [][Next]_vars

---------------------------------------------------------------------------
(* Cursor addressing: an application that sets the geometry and places the *)
(* cursor, with coordinates below, at and above the limits.                *)

CursorInitCols == {16, 20, 200}
CursorInitLines == {1, 2, 4}
CursorCols == (0..2) \cup {15, 16, 17, 20, 21, 99, 255}
CursorRows == (0..MaxCoord) \cup {99, 255}

NextCursor ==
    \/ \E cols \in CursorInitCols, lines \in CursorInitLines :
          I2C_LCD_init(cols, lines)
    \/ \E col \in CursorCols, row \in CursorRows : I2C_LCD_setCursor(col, row)
    \/ I2C_LCD_home

SpecCursor == Init /\ [][NextCursor]_vars

---------------------------------------------------------------------------
(* Attribute toggles, with a capture of two calls.                         *)

InitAttr ==
    /\ backlight = 0
    /\ numlines = 0
    /\ numcols = 0
    /\ displayfunction = 0
    /\ displaycontrol = 0
    /\ displaymode = 0
    /\ row_offsets = <<0, 0, 0, 0>>
    /\ calls = << >>
    /\ bus = << >>
    /\ depth = 2
    /\ blocked = FALSE
    /\ pending = << >>
    /\ device = Attentive

NextAttr ==
    \/ I2C_LCD_init(16, 2)
    \/ \E state \in StateArgs : I2C_LCD_cursor(state)
    \/ \E state \in StateArgs : I2C_LCD_blink(state)
    \/ \E state \in StateArgs : I2C_LCD_display(state)
    \/ I2C_LCD_leftToRight
    \/ I2C_LCD_rightToLeft
    \/ \E state \in StateArgs : I2C_LCD_cursorFixPosition(state)

SpecAttr == InitAttr /\ [][NextAttr]_vars

---------------------------------------------------------------------------
(* Text output: every string up to MaxStrLen, with the backlight on or off.*)

TextChars == Chars \cup {228}
\* strings that fill, and overfill, the range of an 8-bit index
LongTexts == { [i \in 1..n |-> 65] : n \in {255, 256} }
\* all without the terminator
Strings == SeqsUpTo(TextChars, MaxStrLen) \cup LongTexts

NextText ==
    \/ I2C_LCD_init(16, 2)
    \/ \E state \in StateArgs : I2C_LCD_backlight(state)
    \/ \E s \in Strings : I2C_LCD_print(s)
    \/ \E c \in TextChars : I2C_LCD_printChar(c)

SpecText == Init /\ [][NextText]_vars

---------------------------------------------------------------------------
(* End to end: up to four calls from power-on, all of them captured.       *)

InitE2E ==
    /\ backlight = 0
    /\ numlines = 0
    /\ numcols = 0
    /\ displayfunction = 0
    /\ displaycontrol = 0
    /\ displaymode = 0
    /\ row_offsets = <<0, 0, 0, 0>>
    /\ calls = << >>
    /\ bus = << >>
    /\ depth = 4
    /\ blocked = FALSE
    /\ pending = << >>
    /\ device = Attentive

NextE2E ==
    /\ Len(calls) < depth
    /\ \/ \E g \in { <<16, 2>>, <<20, 4>> } : I2C_LCD_init(g[1], g[2])
       \/ \E s \in { << >>, <<72, 105>> } : I2C_LCD_print(s)
       \/ \E p \in { <<1, 2>>, <<2, 1>> } : I2C_LCD_setCursor(p[1], p[2])
       \/ \E c \in {33, 72} : I2C_LCD_printChar(c)

SpecE2E == InitE2E /\ [][NextE2E]_vars

---------------------------------------------------------------------------
(* Reading the capture, as the expander and the controller see it.  These  *)
(* use plain arithmetic on the bytes, not the encoders above.              *)

Called == Len(calls) > 0
LastCall == calls[Len(calls)]

RSBit(w) == w % 2
RWBit(w) == (w \div 2) % 2
EBit(w) == (w \div 4) % 2
BLBit(w) == (w \div 8) % 2
Nibble(w) == w \div 16

IsWrite(e) == e.ev = "write"
WriteBytes(evs) ==
    LET w == SelectSeq(evs, IsWrite)
    IN  [i \in 1..Len(w) |-> w[i].b]

(* One startWait to the display in write direction, then only writes, then *)
(* one stop.                                                               *)
Bracketed(evs) ==
    /\ Len(evs) >= 2
    /\ evs[1] = [ev |-> "startWait", b |-> 78]
    /\ evs[1].b % 2 = 0
    /\ evs[Len(evs)] = [ev |-> "stop", b |-> 0]
    /\ \A i \in 2..(Len(evs) - 1) : evs[i].ev = "write"

(* The whole capture is a sequence of closed transactions: a startWait     *)
(* only when none is open, writes and stop only inside one, and the last   *)
(* one closed.                                                             *)
WellFormed(evs) ==
    /\ \A i \in 1..Len(evs) :
          IF evs[i].ev = "startWait"
          THEN /\ evs[i].b = 78
               /\ i = 1 \/ evs[i - 1].ev = "stop"
          ELSE /\ i > 1
               /\ evs[i - 1].ev \in {"startWait", "write"}
    /\ Len(evs) > 0 => evs[Len(evs)].ev = "stop"

CountOf(evs, kind) == Len(SelectSeq(evs, LAMBDA e : e.ev = kind))

(* Every nibble is strobed: a byte with E high, then the same byte with E  *)
(* low.                                                                    *)
Strobed(evs) ==
    LET w == WriteBytes(evs)
    IN  /\ Len(w) % 2 = 0
        /\ \A k \in 1..(Len(w) \div 2) :
              /\ EBit(w[2 * k - 1]) = 1
              /\ w[2 * k] = w[2 * k - 1] - 4

(* What each push carried: its byte with E and BL taken out. *)
PushPayloads(evs) ==
    LET w == WriteBytes(evs)
    IN  [k \in 1..(Len(w) \div 2) |-> w[2 * k] - 8 * BLBit(w[2 * k])]

(* What the controller latches in 4-bit mode: two nibbles make one byte,   *)
(* RS tells command (0) from data (1).                                     *)
FourBit(evs) ==
    LET p == PushPayloads(evs)
    IN  /\ Strobed(evs)
        /\ Len(p) % 2 = 0
        /\ \A k \in 1..(Len(p) \div 2) : RSBit(p[2 * k - 1]) = RSBit(p[2 * k])

Decoded(evs) ==
    LET p == PushPayloads(evs)
    IN  [k \in 1..(Len(p) \div 2) |->
            [rs |-> RSBit(p[2 * k]),
             b |-> 16 * Nibble(p[2 * k - 1]) + Nibble(p[2 * k])]]

Cmd(b) == [rs |-> 0, b |-> b]
Data(b) == [rs |-> 1, b |-> b]

(* A transaction given by the bytes written in it. *)
Tx(bytes) ==
    << [ev |-> "startWait", b |-> 78] >>
    \o [i \in 1..Len(bytes) |-> [ev |-> "write", b |-> bytes[i]]]
    \o << [ev |-> "stop", b |-> 0] >>

---------------------------------------------------------------------------
(* C1. From power-on, init(16, 2); print("Hi"); setCursor(1, 2);           *)
(* printChar('!') puts on the bus exactly four transactions, in this       *)
(* order: the init sequence ending with entry-mode-set, the data bytes 'H' *)
(* and 'i', the command SETDDRAMADDR | 0x40, the data byte '!'.            *)

E2ECalls ==
    << [op |-> "init", args |-> <<16, 2>>],
       [op |-> "print", args |-> <<72, 105>>],
       [op |-> "setCursor", args |-> <<1, 2>>],
       [op |-> "printChar", args |-> <<33>>] >>

E2EInitTx ==
    Tx(<<60, 56, 60, 56, 60, 56, 44, 40,       \* 0x3_ 0x3_ 0x3_ 0x2_
         44, 40, 140, 136,                     \* function set 0x28
         12, 8, 204, 200,                      \* display control 0x0C
         12, 8, 28, 24,                        \* clear display 0x01
         12, 8, 108, 104>>)                    \* entry mode set 0x06
E2EPrintTx == Tx(<<77, 73, 141, 137, 109, 105, 157, 153>>)
E2ECursorTx == Tx(<<204, 200, 12, 8>>)
E2ECharTx == Tx(<<45, 41, 29, 25>>)

C1_EndToEnd ==
    calls = E2ECalls =>
        /\ bus = E2EInitTx \o E2EPrintTx \o E2ECursorTx \o E2ECharTx
        /\ Decoded(SubSeq(E2EInitTx, 10, 26))[4] = Cmd(I2C_LCD_ENTRYMODESET + 2)
        /\ Decoded(E2EPrintTx) = << Data(72), Data(105) >>
        /\ Decoded(E2ECursorTx) = << Cmd(I2C_LCD_SETDDRAMADDR + 64) >>
        /\ Decoded(E2ECharTx) = << Data(33) >>

C1_Witness == calls = E2ECalls /\ Len(bus) = 48 /\ CountOf(bus, "stop") = 4

---------------------------------------------------------------------------
(* C2. init issues exactly: startWait to the display; the single-nibble    *)
(* pushes 0x30, 0x30, 0x30, 0x20; then as two pushes each the commands     *)
(* FUNCTIONSET | displayfunction, 0x0C, 0x01 and 0x06; then stop.  Twelve  *)
(* pushes, twenty-four byte writes, one startWait, one stop.               *)

HighPart(cmd) == (cmd \div 16) * 16
LowPart(cmd) == (cmd % 16) * 16

C2_InitHandshake ==
    (Called /\ depth = 1 /\ LastCall.op = "init") =>
        LET fs == OR(I2C_LCD_FUNCTIONSET, displayfunction)
        IN  /\ Bracketed(bus)
            /\ Len(bus) = 26
            /\ Strobed(bus)
            /\ PushPayloads(bus) =
                  << 48, 48, 48, 32,
                     HighPart(fs), LowPart(fs),
                     0, 192,
                     0, 16,
                     0, 96 >>

C2_Witness ==
    /\ Called /\ LastCall = [op |-> "init", args |-> <<20, 1>>]
    /\ displayfunction = 0
    /\ Len(bus) = 26 /\ PushPayloads(bus)[6] = 0

---------------------------------------------------------------------------
(* C3. Every call of a bracketed operation is one transaction: startWait   *)
(* to 0x4E (direction bit clear) first, stop last, only byte writes in     *)
(* between; no startWait while a transaction is open and no write outside  *)
(* one.  A print that never returns leaves its transaction open.           *)

C3_Bracket ==
    /\ WellFormed(bus)
    /\ CountOf(bus, "startWait") = Len(calls)
    /\ CountOf(bus, "stop") = Len(calls)
    /\ (Called /\ depth = 1) => Bracketed(bus) /\ Len(WriteBytes(bus)) = Len(bus) - 2

---------------------------------------------------------------------------
(* Steps: the call a step makes and the events it adds to the capture.     *)

NewCall == calls'[Len(calls')]
NewEvents ==
    IF Len(calls) < depth THEN SubSeq(bus', Len(bus) + 1, Len(bus')) ELSE bus'

(* The events of the last call in the capture: from its startWait on. *)
LastEvents ==
    LET starts == { i \in 1..Len(bus) : bus[i].ev = "startWait" }
        from == CHOOSE i \in starts : \A j \in starts : j <= i
    IN  SubSeq(bus, from, Len(bus))

HasBit(x, mask) == (x \div mask) % 2
Min(a, b) == IF a <= b THEN a ELSE b

---------------------------------------------------------------------------
(* C4. After init with at least one column and one to four lines,          *)
(* setCursor(col, row) uses, for every col and row including 0, a column   *)
(* in 1..numcols and a row in 1..numlines.  The code applies the upper     *)
(* limit only, so a 0 stays 0.                                             *)

C4_ClampBothEnds ==
    (Called /\ LastCall.op = "setCursor" /\ numcols >= 1 /\ numlines \in 1..4) =>
        /\ LimitCol(LastCall.args[1]) \in 1..numcols
        /\ LimitRow(LastCall.args[2]) \in 1..numlines

---------------------------------------------------------------------------
(* C5. After init the row offsets are 0x00, 0x40, numcols, 0x40 + numcols  *)
(* (as bytes; 0x00, 0x40, 0x14, 0x54 for 20 columns), and setCursor(col,   *)
(* row) with 1 <= col <= numcols and 1 <= row <= numlines sends exactly    *)
(* one command, the byte SETDDRAMADDR | ((col-1) + row_offsets[row-1]).    *)

C5_CursorAddress ==
    /\ (Called /\ (LastCall.op = "init" \/ numcols >= 1 \/ numlines >= 1)) =>
          row_offsets = << 0, 64, numcols, (64 + numcols) % 256 >>
    /\ (Called /\ numcols = 20) => row_offsets = << 0, 64, 20, 84 >>
    /\ (Called /\ depth = 1 /\ LastCall.op = "setCursor") =>
          LET col == LastCall.args[1]
              row == LastCall.args[2]
          IN  (col \in 1..numcols /\ row \in 1..Min(numlines, 4)) =>
                 /\ Bracketed(bus)
                 /\ FourBit(bus)
                 /\ Decoded(bus) =
                       << Cmd(U8(OR(I2C_LCD_SETDDRAMADDR,
                                    (col - 1) + row_offsets[row]))) >>

C5_Witness ==
    /\ Called /\ LastCall = [op |-> "setCursor", args |-> <<20, 4>>]
    /\ numcols = 20 /\ numlines = 4
    /\ Decoded(bus) = << Cmd(231) >>

---------------------------------------------------------------------------
(* C6. With one to four lines, a setCursor whose column or row lies above  *)
(* the limit puts on the bus what the setCursor with that coordinate       *)
(* replaced by the limit puts there: each coordinate is limited on its     *)
(* own, nothing is rejected, nothing wraps.                                *)

C6_UpperClamp ==
    [][ (/\ Called /\ depth = 1
         /\ LastCall.op = "setCursor" /\ NewCall.op = "setCursor"
         /\ numlines \in 1..4
         /\ LastCall.args[1] >= 1 /\ LastCall.args[2] >= 1
         /\ NewCall.args = << Min(LastCall.args[1], numcols),
                              Min(LastCall.args[2], numlines) >>)
        => (bus' = bus /\ Len(bus') = 6) ]_vars

C6_Witness ==
    /\ Called /\ LastCall = [op |-> "setCursor", args |-> <<99, 99>>]
    /\ numcols = 20 /\ numlines = 4
    /\ Decoded(bus) = << Cmd(231) >>

---------------------------------------------------------------------------
(* C7. display, cursor, blink (on displaycontrol) and leftToRight,         *)
(* rightToLeft, cursorFixPosition (on displaymode) set their own bit to    *)
(* the requested value, leave every other bit and every other variable of  *)
(* the driver alone, and send one command: the opcode with the whole new   *)
(* register.                                                               *)

ToggleOps == {"display", "cursor", "blink", "leftToRight", "rightToLeft",
              "cursorFixPosition"}
OnControl(op) == op \in {"display", "cursor", "blink"}
ToggleMask(op) ==
    CASE op = "display" -> 4
      [] op = "cursor" -> 2
      [] op = "blink" -> 1
      [] op = "leftToRight" -> 2
      [] op = "rightToLeft" -> 2
      [] op = "cursorFixPosition" -> 1
Requested(c) ==
    CASE c.op = "leftToRight" -> 1
      [] c.op = "rightToLeft" -> 0
      [] OTHER -> IF c.args[1] # 0 THEN 1 ELSE 0

WithBit(reg, mask, on) == reg - mask * HasBit(reg, mask) + mask * on

C7_ToggleFrame ==
    [][ NewCall.op \in ToggleOps =>
          LET mask == ToggleMask(NewCall.op)
              on == Requested(NewCall)
          IN  /\ IF OnControl(NewCall.op)
                 THEN /\ displaycontrol' = WithBit(displaycontrol, mask, on)
                      /\ displaymode' = displaymode
                      /\ Decoded(NewEvents) =
                            << Cmd(OR(I2C_LCD_DISPLAYCONTROL, displaycontrol')) >>
                 ELSE /\ displaymode' = WithBit(displaymode, mask, on)
                      /\ displaycontrol' = displaycontrol
                      /\ Decoded(NewEvents) =
                            << Cmd(OR(I2C_LCD_ENTRYMODESET, displaymode')) >>
              /\ Bracketed(NewEvents)
              /\ FourBit(NewEvents)
              /\ UNCHANGED <<backlight, numlines, numcols, displayfunction,
                             row_offsets>> ]_vars

C7_Witness ==
    /\ Len(calls) = 2
    /\ calls[1] = [op |-> "cursor", args |-> <<1>>]
    /\ calls[2] = [op |-> "cursor", args |-> <<0>>]
    /\ displaycontrol = 4 /\ numcols = 16
    /\ Decoded(bus) = << Cmd(14), Cmd(12) >>

---------------------------------------------------------------------------
(* C8. The same attribute toggle called again with the same argument       *)
(* leaves displaycontrol and displaymode as the first call left them and   *)
(* sends the same bytes again.                                             *)

C8_ToggleTwice ==
    [][ (Called /\ NewCall.op \in ToggleOps /\ NewCall = LastCall) =>
          /\ displaycontrol' = displaycontrol
          /\ displaymode' = displaymode
          /\ NewEvents = LastEvents ]_vars

C8_Witness ==
    /\ Len(calls) = 2
    /\ calls[1] = [op |-> "blink", args |-> <<1>>]
    /\ calls[2] = calls[1]
    /\ HasBit(displaycontrol, I2C_LCD_BLINK) = 1
    /\ SubSeq(bus, 1, 6) = SubSeq(bus, 7, 12)

---------------------------------------------------------------------------
(* C9. Every byte a call writes carries BL set exactly when the backlight  *)
(* is on after that call; backlight(state) turns it on exactly when state  *)
(* is not 0, init turns it on, no other call changes it.  backlight sends  *)
(* one command, DISPLAYCONTROL | displaycontrol, in one bracket and leaves *)
(* the three flag registers alone.                                         *)

IsOn(x) == IF x # 0 THEN 1 ELSE 0

C9_Backlight ==
    [][ /\ \A i \in 1..Len(NewEvents) :
              NewEvents[i].ev = "write" =>
                  BLBit(NewEvents[i].b) = IsOn(backlight')
        /\ NewCall.op = "backlight" =>
              /\ IsOn(backlight') = IsOn(NewCall.args[1])
              /\ Bracketed(NewEvents)
              /\ FourBit(NewEvents)
              /\ Decoded(NewEvents) =
                    << Cmd(OR(I2C_LCD_DISPLAYCONTROL, displaycontrol)) >>
              /\ UNCHANGED <<displaycontrol, displaymode, displayfunction>>
        /\ NewCall.op = "init" => IsOn(backlight') = 1
        /\ NewCall.op \notin {"backlight", "init"} =>
              IsOn(backlight') = IsOn(backlight) ]_vars

C9_Witness ==
    /\ Called /\ LastCall = [op |-> "print", args |-> <<72, 105>>]
    /\ numcols = 16 /\ backlight = 0
    /\ \A i \in 2..9 : BLBit(bus[i].b) = 0

---------------------------------------------------------------------------
(* C10. For every terminated string s, print(s) is one transaction:        *)
(* startWait, then the characters of s in order as data bytes, two pushes  *)
(* (four byte writes) each, then stop; print("") is startWait, stop.       *)
(* printChar(c) is the same with the one character c.  A string of 256     *)
(* characters or more does not get its stop.                               *)

C10_PrintOneTransaction ==
    /\ (Called /\ depth = 1 /\ LastCall.op = "print") =>
          LET s == LastCall.args
          IN  /\ Bracketed(bus)
              /\ Len(bus) = 2 + 4 * Len(s)
              /\ FourBit(bus)
              /\ Decoded(bus) = [i \in 1..Len(s) |-> Data(s[i])]
              /\ (s = << >> => bus = Tx(<< >>))
    /\ (Called /\ depth = 1 /\ LastCall.op = "printChar") =>
          /\ Bracketed(bus)
          /\ Len(bus) = 6
          /\ FourBit(bus)
          /\ Decoded(bus) = << Data(LastCall.args[1]) >>

---------------------------------------------------------------------------
(* Custom glyphs: the locations 0..MaxLocation and locations with each of  *)
(* the higher bits, with rows that have bits above the five a glyph uses.  *)

GlyphLocations == (0..MaxLocation) \cup {31, 32, 63, 64, 120, 127, 128, 129, 248, 255}
Glyphs == { Glyph, <<255, 0, 32, 31, 128, 170, 85, 1>> }

NextGlyph ==
    \/ I2C_LCD_init(16, 2)
    \/ \E location \in GlyphLocations, charmap \in Glyphs :
          I2C_LCD_createChar(location, charmap)

SpecGlyph == Init /\ [][NextGlyph]_vars

---------------------------------------------------------------------------
(* C11. createChar(location, charmap) is one transaction: the command      *)
(* SETCGRAMADDR | ((location & 7) << 3), then the eight rows of charmap in *)
(* order as data bytes, each cut to its low five bits.  The command byte   *)
(* lies in 0x40..0x78 with its low three bits clear, so location 9 gives   *)
(* the bytes of location 1.                                                *)

C11_CreateChar ==
    (Called /\ depth = 1 /\ LastCall.op = "createChar") =>
        LET location == LastCall.args[1]
            charmap == Tail(LastCall.args)
            slot == location % 8
        IN  /\ Bracketed(bus)
            /\ Len(bus) = 2 + 4 + 8 * 4
            /\ FourBit(bus)
            /\ Decoded(bus) =
                  << Cmd(64 + 8 * slot) >>
                  \o [i \in 1..8 |-> Data(charmap[i] % 32)]
            /\ Decoded(bus)[1].b \in 64..127
            /\ Decoded(bus)[1].b % 8 = 0

C11_Witness ==
    /\ Called /\ LastCall.op = "createChar"
    /\ LastCall.args = <<9, 255, 0, 32, 31, 128, 170, 85, 1>>
    /\ Decoded(bus)[1] = Cmd(72)
    /\ Decoded(bus)[2] = Data(31) /\ Decoded(bus)[6] = Data(0)

---------------------------------------------------------------------------
(* C12. After every init(cols, lines), also one that follows an init with  *)
(* another number of lines, displayfunction has the two-line bit set       *)
(* exactly when lines > 1 and the font bit clear, numlines = lines,        *)
(* numcols = cols, and the function-set command of that init is            *)
(* FUNCTIONSET | displayfunction.  The code only ever sets the two-line    *)
(* bit, so it survives a later init with one line.                         *)

C12_FunctionFlags ==
    (Called /\ depth = 1 /\ LastCall.op = "init") =>
        LET cols == LastCall.args[1]
            lines == LastCall.args[2]
            flags == IF lines > 1 THEN 8 ELSE 0
        IN  /\ displayfunction = flags
            /\ numlines = lines
            /\ numcols = cols
            /\ Decoded(SubSeq(bus, 10, 13)) = << Cmd(32 + flags) >>

---------------------------------------------------------------------------
(* Re-initialization: init after any of the attribute calls, with a        *)
(* capture of two calls.                                                   *)

NextReinit ==
    \/ NextAttr
    \/ \E state \in Switch : I2C_LCD_backlight(state)

SpecReinit == InitAttr /\ [][NextReinit]_vars

---------------------------------------------------------------------------
(* C13. After init, whatever the attribute calls before it, the backlight  *)
(* is on, displaycontrol is DISPLAY alone, displaymode is ENTRYLEFT alone, *)
(* and the display-control and entry-mode commands of that init are 0x0C   *)
(* and 0x06, written with BL set.                                          *)

C13_InitResets ==
    (Called /\ LastCall.op = "init") =>
        /\ backlight # 0
        /\ displaycontrol = 4
        /\ displaymode = 2
        /\ Len(LastEvents) = 26
        /\ FourBit(SubSeq(LastEvents, 10, 25))
        /\ Decoded(SubSeq(LastEvents, 14, 17)) = << Cmd(12) >>
        /\ Decoded(SubSeq(LastEvents, 22, 25)) = << Cmd(6) >>
        /\ \A i \in 2..25 : BLBit(LastEvents[i].b) = 1

C13_Witness ==
    /\ Len(calls) = 2
    /\ calls[1] = [op |-> "rightToLeft", args |-> << >>]
    /\ Decoded(SubSeq(bus, 1, 6)) = << Cmd(5) >>
    /\ BLBit(bus[2].b) = 0
    /\ calls[2].op = "init"
    /\ displaymode = 2 /\ displaycontrol = 4 /\ backlight = 255

---------------------------------------------------------------------------
(* Unacknowledged bytes: the device changes, between calls, which byte     *)
(* writes it acknowledges; the capture holds two calls.                    *)

WriteResults == SUBSET {1, 2}

NextAck ==
    \/ I2C_LCD_init(16, 2)
    \/ \E s \in Texts : I2C_LCD_print(s)
    \/ I2C_LCD_printChar(33)
    \/ numlines >= 2 /\ I2C_LCD_setCursor(2, 2)
    \/ \E state \in Switch : I2C_LCD_cursor(state)
    \/ \E state \in Switch : I2C_LCD_backlight(state)
    \/ I2C_LCD_clear
    \/ I2C_LCD_rightToLeft
    \/ I2C_LCD_createChar(1, Glyph)
    \/ \E writes \in WriteResults : DeviceRefuses(writes)

SpecAck == InitAttr /\ [][NextAck]_vars

---------------------------------------------------------------------------
(* C14. Whatever byte writes the device leaves unacknowledged, a call      *)
(* issues one whole transaction, startWait to stop, with both byte writes  *)
(* of every push; the same call made again under any other answers of the  *)
(* device issues the same events and leaves the driver in the same state:  *)
(* nothing is retried, nothing is cut short.                               *)

C14_AckIgnored ==
    [][ calls' # calls =>
          /\ Bracketed(NewEvents)
          /\ Strobed(NewEvents)
          /\ (Called /\ NewCall = LastCall) =>
                /\ NewEvents = LastEvents
                /\ driver' = driver ]_vars

C14_Witness ==
    /\ device.refuses = {1, 2}
    /\ calls = << [op |-> "print", args |-> <<72, 105>>],
                  [op |-> "print", args |-> <<72, 105>>] >>
    /\ bus = Tx(<<77, 73, 141, 137, 109, 105, 157, 153>>)
             \o Tx(<<77, 73, 141, 137, 109, 105, 157, 153>>)

---------------------------------------------------------------------------
(* Connecting: the device may be busy when a call starts, so the call      *)
(* waits in I2C_startWait until the device answers.                        *)

NextConnect ==
    \/ I2C_LCD_init(16, 2)
    \/ \E s \in Texts : I2C_LCD_print(s)
    \/ I2C_LCD_printChar(33)
    \/ \E state \in Switch : I2C_LCD_cursor(state)
    \/ \E state \in Switch : I2C_LCD_backlight(state)
    \/ I2C_LCD_clear
    \/ I2C_startWaitReturns
    \/ \E ready \in BOOLEAN : DeviceAnswers(ready)

SpecConnect == Init /\ [][NextConnect]_vars

(* The loop in I2C_startWait keeps addressing the device: if the device    *)
(* answers again and again, one of the attempts meets an answer.           *)
SpecConnectLive == SpecConnect /\ SF_vars(I2C_startWaitReturns)

---------------------------------------------------------------------------
(* C15. A call writes no byte before its I2C_startWait has returned; a     *)
(* call that is not waiting has issued its whole transaction; while the    *)
(* device does not answer, the waiting call changes nothing: no byte, no   *)
(* stop, no return; the wait ends only with the device answering, and then *)
(* the call issues the rest up to its stop; if the device answers again    *)
(* and again, every waiting call gets to its stop.                         *)

Connecting == pending # << >>

---------------------------------------------------------------------------
(* The encoders called on their own (I2C_LCD.h declares them), with every  *)
(* byte as argument and the backlight on or off.                           *)

PushCall(i2c_data) ==
    /\ Record("push", <<i2c_data>>, I2C_LCD_push(i2c_data, backlight))
    /\ UNCHANGED <<driver, depth>>

Command4bitCall(command) ==
    /\ Record("command4bit", <<command>>,
          I2C_LCD_command4bit(command, backlight))
    /\ UNCHANGED <<driver, depth>>

NextPush ==
    \/ \E state \in Switch : I2C_LCD_backlight(state)
    \/ \E i2c_data \in Byte : PushCall(i2c_data)

SpecPush == Init /\ [][NextPush]_vars

NextNibble ==
    \/ \E state \in Switch : I2C_LCD_backlight(state)
    \/ \E command \in Byte : Command4bitCall(command)

SpecNibble == Init /\ [][NextNibble]_vars

---------------------------------------------------------------------------
(* C16. push(d) makes two byte writes: the first with E set, the second    *)
(* with E clear; in both, BL is the backlight state whatever BL is in d,   *)
(* and DB4..DB7, RS and RW are those of d.  The two bytes differ in E      *)
(* only.                                                                   *)

C16_PushStrobe ==
    (Called /\ depth = 1 /\ LastCall.op = "push") =>
        LET d == LastCall.args[1]
        IN  /\ Len(bus) = 2
            /\ \A i \in 1..2 :
                  /\ bus[i].ev = "write"
                  /\ BLBit(bus[i].b) = IsOn(backlight)
                  /\ Nibble(bus[i].b) = Nibble(d)
                  /\ RSBit(bus[i].b) = RSBit(d)
                  /\ RWBit(bus[i].b) = RWBit(d)
            /\ EBit(bus[1].b) = 1
            /\ EBit(bus[2].b) = 0
            /\ bus[1].b = bus[2].b + 4

C16_Witness ==
    /\ Called /\ LastCall = [op |-> "push", args |-> <<175>>]
    /\ backlight = 0
    /\ WriteBytes(bus) = <<167, 163>>

---------------------------------------------------------------------------
(* C17. command4bit(cmd) makes two pushes, four byte writes: the payload   *)
(* of the first is cmd & 0xF0, of the second the low nibble of cmd moved   *)
(* to the high four bits; 0xAB gives 0xA0 then 0xB0.                       *)

C17_NibbleSplit ==
    (Called /\ depth = 1 /\ LastCall.op = "command4bit") =>
        LET cmd == LastCall.args[1]
        IN  /\ Len(bus) = 4
            /\ Len(WriteBytes(bus)) = 4
            /\ Strobed(bus)
            /\ PushPayloads(bus) = << 16 * (cmd \div 16), 16 * (cmd % 16) >>

C17_Witness ==
    /\ Called /\ LastCall = [op |-> "command4bit", args |-> <<171>>]
    /\ backlight = 1
    /\ WriteBytes(bus) = <<172, 168, 188, 184>>

---------------------------------------------------------------------------
(* C18. In every byte any call writes RW is 0.  RS is 1 in every byte of a *)
(* data write, that is all bytes of print and printChar and the bytes of   *)
(* the eight rows of createChar, and 0 in every byte of a command: all     *)
(* bytes of the other calls and the four bytes of createChar's CGRAM       *)
(* address.                                                                *)

DataOps == {"print", "printChar"}

C18_RegisterSelect ==
    (Called /\ depth = 1) =>
        LET w == WriteBytes(bus)
        IN  \A i \in 1..Len(w) :
               /\ RWBit(w[i]) = 0
               /\ RSBit(w[i]) =
                     IF LastCall.op \in DataOps THEN 1
                     ELSE IF LastCall.op = "createChar" /\ i > 4 THEN 1
                     ELSE 0

C18_Witness ==
    /\ Called /\ LastCall.op = "createChar"
    /\ Len(WriteBytes(bus)) = 36
    /\ \A i \in 1..4 : RSBit(WriteBytes(bus)[i]) = 0
    /\ \A i \in 5..36 : RSBit(WriteBytes(bus)[i]) = 1

---------------------------------------------------------------------------
(* C19. Whatever init and setCursor or home are given, and also before any *)
(* init, the index row - 1 that setCursorWOI2C uses on row_offsets lies in *)
(* 0..3.  The code limits the row from above only, to numlines, which may  *)
(* be 0 or more than 4.                                                    *)

RowAsked(call) == IF call.op = "home" THEN 1 ELSE call.args[2]

C19_RowIndexInBounds ==
    (Called /\ LastCall.op \in {"setCursor", "home"}) =>
        LimitRow(RowAsked(LastCall)) - 1 \in 0..3

---------------------------------------------------------------------------
(* C20. print(s) returns for every terminated string s, also one of 256    *)
(* characters or more: it gets to its stop after one write of each         *)
(* character of s.  The code counts in a uint8_t, which is back at 0 after *)
(* 255.                                                                    *)

C20_PrintTerminates ==
    (Called /\ depth = 1 /\ LastCall.op = "print") =>
        /\ ~blocked
        /\ bus[Len(bus)].ev = "stop"
        /\ Len(WriteBytes(bus)) = 4 * Len(LastCall.args)

---------------------------------------------------------------------------
(* Attribute toggles with other calls in between, with a capture of three  *)
(* calls.  setCursorWOI2C is called on its own, as I2C_LCD.h allows; the   *)
(* cursor is placed only once init has set the geometry.                   *)

InitFrame ==
    /\ backlight = 0
    /\ numlines = 0
    /\ numcols = 0
    /\ displayfunction = 0
    /\ displaycontrol = 0
    /\ displaymode = 0
    /\ row_offsets = <<0, 0, 0, 0>>
    /\ calls = << >>
    /\ bus = << >>
    /\ depth = 3
    /\ blocked = FALSE
    /\ pending = << >>
    /\ device = Attentive

SetCursorWOI2CCall(col, row) ==
    /\ \E offset \in RowOffsetReads(row) :
          Record("setCursorWOI2C", <<col, row>>,
                 I2C_LCD_setCursorWOI2C(col, row, offset, backlight))
    /\ UNCHANGED <<driver, depth>>

NextFrame ==
    \/ I2C_LCD_init(16, 2)
    \/ I2C_LCD_clear
    \/ numlines >= 2 /\ I2C_LCD_home
    \/ numlines >= 2 /\ I2C_LCD_setCursor(2, 2)
    \/ numlines >= 2 /\ SetCursorWOI2CCall(3, 1)
    \/ I2C_LCD_print(<<72, 105>>)
    \/ I2C_LCD_printChar(33)
    \/ I2C_LCD_scrollDisplayLeft
    \/ I2C_LCD_scrollDisplayRight
    \/ I2C_LCD_createChar(1, Glyph)
    \/ \E state \in Switch : I2C_LCD_cursor(state)
    \/ I2C_LCD_leftToRight
    \/ I2C_LCD_rightToLeft
    \/ \E state \in Switch : I2C_LCD_cursorFixPosition(state)

SpecFrame == InitFrame /\ [][NextFrame]_vars

---------------------------------------------------------------------------
(* C21. clear, home, setCursor, setCursorWOI2C, print, printChar,          *)
(* scrollDisplayLeft, scrollDisplayRight and createChar change no variable *)
(* of the driver; so of two toggles of the same register with one of these *)
(* calls between them, the second sends the register the first one sent    *)
(* with only its own bit set to the requested value.                       *)

NonToggleOps == {"clear", "home", "setCursor", "setCursorWOI2C", "print",
                 "printChar", "scrollDisplayLeft", "scrollDisplayRight",
                 "createChar"}

FirstSix == SubSeq(bus, 1, 6)
LastSix == SubSeq(bus, Len(bus) - 5, Len(bus))

C21_NonToggleFrame ==
    /\ [][ (calls' # calls /\ NewCall.op \in NonToggleOps) =>
               driver' = driver ]_vars
    /\ []( (/\ Len(calls) = 3
            /\ calls[1].op \in ToggleOps
            /\ calls[2].op \in NonToggleOps
            /\ calls[3].op \in ToggleOps
            /\ OnControl(calls[1].op) = OnControl(calls[3].op)) =>
              LET opcode == IF OnControl(calls[3].op) THEN 8 ELSE 4
                  sent == Decoded(FirstSix)[1].b - opcode
              IN  /\ Bracketed(FirstSix)
                  /\ Bracketed(LastSix)
                  /\ Decoded(LastSix) =
                        << Cmd(opcode + WithBit(sent, ToggleMask(calls[3].op),
                                                Requested(calls[3]))) >> )

C21_Witness ==
    /\ Len(calls) = 3
    /\ calls[1].op = "rightToLeft"
    /\ calls[2].op = "clear"
    /\ calls[3] = [op |-> "cursorFixPosition", args |-> <<1>>]
    /\ Decoded(FirstSix) = << Cmd(4) >>
    /\ Decoded(LastSix) = << Cmd(5) >>
    /\ displaymode = 1

---------------------------------------------------------------------------
(* The documented displays: at most 1x80, 2x40 or 4x20 (three lines are    *)
(* laid out as four), with the cursor sent below, at and beyond the edges. *)

MaxColumns(lines) == IF lines = 1 THEN 80 ELSE IF lines = 2 THEN 40 ELSE 20

DimCols == {1, 16, 20, 21, 40, 41, 80}
Dimensions == { d \in DimCols \X (1..4) : d[1] <= MaxColumns(d[2]) }
DimCursorCols == {1, 2, 20, 21, 40, 41, 80, 81, 255}
DimCursorRows == (1..MaxCoord) \cup {255}

NextDims ==
    \/ \E d \in Dimensions : I2C_LCD_init(d[1], d[2])
    \/ /\ numlines >= 1
       /\ \E col \in DimCursorCols, row \in DimCursorRows :
             I2C_LCD_setCursor(col, row)

SpecDims == Init /\ [][NextDims]_vars

---------------------------------------------------------------------------
(* C22. On a display within 1x80, 2x40 or 4x20, for every col and row from *)
(* 1 up, the address (col - 1) + row offset that setCursor computes, taken *)
(* as a plain number, is at most 0x7F: at most 0x4F with one line, in      *)
(* 0x00..0x27 or 0x40..0x67 otherwise; the command byte is 0x80 plus that  *)
(* address, and the row offsets cols and 0x40 + cols are stored whole.     *)

C22_AddressFits ==
    (Called /\ depth = 1 /\ LastCall.op = "setCursor") =>
        LET col == Min(LastCall.args[1], numcols)
            row == Min(LastCall.args[2], numlines)
            base == << 0, 64, numcols, 64 + numcols >>
            address == (col - 1) + base[row]
        IN  /\ row_offsets = base
            /\ address \in 0..127
            /\ numlines = 1 => address <= 79
            /\ numlines > 1 => address \in (0..39) \cup (64..103)
            /\ Decoded(bus) = << Cmd(128 + address) >>

C22_Witness ==
    /\ Called /\ LastCall = [op |-> "setCursor", args |-> <<255, 255>>]
    /\ numcols = 40 /\ numlines = 2
    /\ row_offsets = <<0, 64, 40, 104>>
    /\ Decoded(bus) = << Cmd(231) >>

====
